---- MODULE Spec2Model ----
(***************************************************************************)
(* A model of exoshtw/rest-client: the RestClient request pipeline         *)
(* (_fetch), its verb wrappers, the body / response codecs, the header     *)
(* lookup, HTTPError and the module-level simpleFetch.                     *)
(*                                                                         *)
(* JavaScript strings are TLA+ strings (Len, SubSeq and \o act on their    *)
(* characters).  Every JavaScript value is a record of one shape,          *)
(* [t, s, o, opts]: t the kind, s the characters of a string, o the        *)
(* entries of a plain object in insertion order, opts an options object.   *)
(***************************************************************************)
EXTENDS Integers, Sequences, FiniteSets, TLC

VARIABLES
    baseUrl,          \* this.#baseUrl
    headers,          \* this.#headers
    simulatedDelay,   \* this.#simulatedDelay
    updateLog,        \* the arguments of the updateHeaders calls so far, in order
    calls,            \* the verb calls, by caller
    codec             \* a direct call of parseBody: its arguments and its result

vars == <<baseUrl, headers, simulatedDelay, updateLog, calls, codec>>

(***************************************************************************)
(* Bounds of the model.                                                    *)
(***************************************************************************)
NumCalls == 2
MaxUpdates == 1

CallIds == 1..NumCalls

(***************************************************************************)
(* Strings.                                                                *)
(***************************************************************************)
Char(s, i) == SubSeq(s, i, i)

UpperLetters == "ABCDEFGHIJKLMNOPQRSTUVWXYZ"
LowerLetters == "abcdefghijklmnopqrstuvwxyz"
Digits == "0123456789"

CharsOf(alphabet) == {Char(alphabet, i) : i \in 1..Len(alphabet)}
UpperSet == CharsOf(UpperLetters)
LowerSet == CharsOf(LowerLetters)
DigitSet == CharsOf(Digits)

\* each upper-case letter's lower-case letter
LowerOf ==
    [c \in UpperSet |->
        Char(LowerLetters, CHOOSE i \in 1..Len(UpperLetters) : Char(UpperLetters, i) = c)]

LowerChar(c) == IF c \in UpperSet THEN LowerOf[c] ELSE c

RECURSIVE toLowerCase(_)
toLowerCase(s) ==
    IF Len(s) = 0 THEN "" ELSE LowerChar(Char(s, 1)) \o toLowerCase(Tail(s))

startsWith(s, prefix) ==
    Len(s) >= Len(prefix) /\ SubSeq(s, 1, Len(prefix)) = prefix

\* x.match(/^[a-z0-9]/i)
MatchesAlnumStart(x) ==
    /\ Len(x) > 0
    /\ Char(x, 1) \in LowerSet \cup UpperSet \cup DigitSet

\* str.replace(/\?$/, '')
StripTrailingQuestion(s) ==
    IF Len(s) > 0 /\ Char(s, Len(s)) = "?" THEN SubSeq(s, 1, Len(s) - 1) ELSE s

(***************************************************************************)
(* Values.                                                                 *)
(***************************************************************************)
NoOpts ==
    [keys |-> {}, headers |-> <<>>, forceType |-> "", resolveStreams |-> FALSE,
     fetchOptions |-> [keys |-> {}, method |-> "", headers |-> <<>>, body |-> ""],
     query |-> <<>>]

Val(t, s, o, opts) == [t |-> t, s |-> s, o |-> o, opts |-> opts]
Null == Val("null", "", <<>>, NoOpts)
Undefined == Val("undefined", "", <<>>, NoOpts)
Str(s) == Val("string", s, <<>>, NoOpts)
Obj(o) == Val("object", "", o, NoOpts)
OptsObj(opts) == Val("options", "", <<>>, opts)
FormData(o) == Val("FormData", "", o, NoOpts)
ReadableStream(raw) == Val("ReadableStream", raw, <<>>, NoOpts)
ArrayBuffer(raw) == Val("ArrayBuffer", raw, <<>>, NoOpts)
TypeError(msg) == Val("TypeError", msg, <<>>, NoOpts)
SyntaxError(msg) == Val("SyntaxError", msg, <<>>, NoOpts)

\* !v
Falsy(v) == v.t \in {"null", "undefined"} \/ (v.t = "string" /\ v.s = "")

KV(k, v) == [k |-> k, v |-> v]

(***************************************************************************)
(* Plain objects as ordered maps: sequences of entries [k, v] with         *)
(* distinct keys, in insertion order.                                      *)
(***************************************************************************)
HasKey(m, k) == \E i \in 1..Len(m) : m[i].k = k

IndexOfKey(m, k) == CHOOSE i \in 1..Len(m) : m[i].k = k

Lookup(m, k) == m[IndexOfKey(m, k)].v

SetKey(m, k, v) ==
    IF HasKey(m, k)
    THEN [m EXCEPT ![IndexOfKey(m, k)] = KV(k, v)]
    ELSE Append(m, KV(k, v))

\* {...a, ...b}
RECURSIVE Spread(_, _)
Spread(a, b) ==
    IF Len(b) = 0 THEN a ELSE Spread(SetKey(a, b[1].k, b[1].v), Tail(b))

RECURSIVE Join(_, _)
Join(parts, sep) ==
    IF Len(parts) = 0 THEN ""
    ELSE IF Len(parts) = 1 THEN parts[1]
    ELSE parts[1] \o sep \o Join(Tail(parts), sep)

(***************************************************************************)
(* getHeader (part_001 lines 10-19).                                       *)
(***************************************************************************)
getHeader(h, name) ==
    LET lname == toLowerCase(name)
        found == {i \in 1..Len(h) :
                    MatchesAlnumStart(h[i].k) /\ toLowerCase(h[i].k) = lname}
    IN  IF found = {} THEN Null
        ELSE h[CHOOSE i \in found : \A j \in found : i <= j].v

(***************************************************************************)
(* Qs.stringify on a flat mapping of strings, and fullRoute.               *)
(***************************************************************************)
QsStringify(params) ==
    Join([i \in 1..Len(params) |-> params[i].k \o "=" \o params[i].v], "&")

fullRoute(base, url, params) ==
    StripTrailingQuestion(base \o url \o "?" \o QsStringify(params))

(***************************************************************************)
(* JSON.stringify, string coercion and Object.keys on the values used.     *)
(***************************************************************************)
Quote(s) == "\"" \o s \o "\""

JSONOfStrings(o) ==
    "{" \o Join([i \in 1..Len(o) |-> Quote(o[i].k) \o ":" \o Quote(o[i].v)], ",") \o "}"

JSONOfHeaders(h) ==
    "{" \o Join([i \in 1..Len(h) |->
                    Quote(h[i].k) \o ":" \o
                    (IF h[i].v.t = "string" THEN Quote(h[i].v.s) ELSE "null")], ",")
        \o "}"

JSONOfFetchOptions(fo) ==
    "{" \o Join(
        (IF "method" \in fo.keys THEN <<Quote("method") \o ":" \o Quote(fo.method)>> ELSE <<>>)
        \o (IF "headers" \in fo.keys
            THEN <<Quote("headers") \o ":" \o JSONOfHeaders(fo.headers)>> ELSE <<>>)
        \o (IF "body" \in fo.keys THEN <<Quote("body") \o ":" \o Quote(fo.body)>> ELSE <<>>),
        ",") \o "}"

JSONOfOptions(opts) ==
    "{" \o Join(
        (IF "headers" \in opts.keys
         THEN <<Quote("headers") \o ":" \o JSONOfHeaders(opts.headers)>> ELSE <<>>)
        \o (IF "forceType" \in opts.keys
            THEN <<Quote("forceType") \o ":" \o Quote(opts.forceType)>> ELSE <<>>)
        \o (IF "resolveStreams" \in opts.keys
            THEN <<Quote("resolveStreams") \o ":" \o
                   (IF opts.resolveStreams THEN "true" ELSE "false")>> ELSE <<>>)
        \o (IF "fetchOptions" \in opts.keys
            THEN <<Quote("fetchOptions") \o ":" \o JSONOfFetchOptions(opts.fetchOptions)>>
            ELSE <<>>)
        \o (IF "query" \in opts.keys
            THEN <<Quote("query") \o ":" \o JSONOfStrings(opts.query)>> ELSE <<>>),
        ",") \o "}"

JSONStringify(v) ==
    CASE v.t = "string" -> Quote(v.s)
      [] v.t = "object" -> JSONOfStrings(v.o)
      [] v.t = "options" -> JSONOfOptions(v.opts)
      [] OTHER -> "null"

\* `${body}`
StringCoerce(v) ==
    CASE v.t = "string" -> v.s
      [] v.t \in {"object", "options"} -> "[object Object]"
      [] OTHER -> v.t

\* the (key, value) pairs FormData.append receives from
\* Object.keys(body).forEach((k) => nbody.append(k, body[k]))
OwnEntries(v) ==
    CASE v.t = "object" -> v.o
      [] v.t = "string" -> [i \in 1..Len(v.s) |-> KV(Char(Digits, i), Char(v.s, i))]
      [] v.t = "options" ->
            (IF "headers" \in v.opts.keys THEN <<KV("headers", "[object Object]")>> ELSE <<>>)
            \o (IF "forceType" \in v.opts.keys
                THEN <<KV("forceType", v.opts.forceType)>> ELSE <<>>)
            \o (IF "resolveStreams" \in v.opts.keys
                THEN <<KV("resolveStreams", IF v.opts.resolveStreams THEN "true" ELSE "false")>>
                ELSE <<>>)
            \o (IF "fetchOptions" \in v.opts.keys
                THEN <<KV("fetchOptions", "[object Object]")>> ELSE <<>>)
            \o (IF "query" \in v.opts.keys THEN <<KV("query", "[object Object]")>> ELSE <<>>)
      [] OTHER -> <<>>

(***************************************************************************)
(* JSON.parse on texts without white space between tokens: a string        *)
(* literal, or an object whose members are string literals.                *)
(***************************************************************************)
IndexOfQuote(s, from) ==
    LET at == {j \in from..Len(s) : Char(s, j) = "\""}
    IN  IF at = {} THEN 0 ELSE CHOOSE j \in at : \A k \in at : j <= k

ParseString(s, i) ==
    IF i <= Len(s) /\ Char(s, i) = "\"" /\ IndexOfQuote(s, i + 1) # 0
    THEN [ok |-> TRUE, val |-> SubSeq(s, i + 1, IndexOfQuote(s, i + 1) - 1),
          next |-> IndexOfQuote(s, i + 1) + 1]
    ELSE [ok |-> FALSE, val |-> "", next |-> 0]

ParseFailure == [ok |-> FALSE, v |-> SyntaxError("Unexpected token in JSON")]

RECURSIVE ParseMembers(_, _, _)
ParseMembers(s, i, acc) ==
    LET key == ParseString(s, i)
        val == ParseString(s, key.next + 1)
    IN  IF ~key.ok \/ key.next > Len(s) \/ Char(s, key.next) # ":" \/ ~val.ok
        THEN ParseFailure
        ELSE IF val.next = Len(s) /\ Char(s, val.next) = "}"
        THEN [ok |-> TRUE, v |-> Obj(SetKey(acc, key.val, val.val))]
        ELSE IF val.next < Len(s) /\ Char(s, val.next) = ","
        THEN ParseMembers(s, val.next + 1, SetKey(acc, key.val, val.val))
        ELSE ParseFailure

JSONParse(raw) ==
    IF raw = "{}" THEN [ok |-> TRUE, v |-> Obj(<<>>)]
    ELSE IF startsWith(raw, "{") THEN ParseMembers(raw, 2, <<>>)
    ELSE LET str == ParseString(raw, 1)
         IN  IF str.ok /\ str.next = Len(raw) + 1
             THEN [ok |-> TRUE, v |-> Str(str.val)]
             ELSE ParseFailure

(***************************************************************************)
(* Promises: what an async function returns.                               *)
(***************************************************************************)
Fulfilled(v) == [promise |-> TRUE, state |-> "fulfilled", v |-> v]
Rejected(e) == [promise |-> TRUE, state |-> "rejected", v |-> e]
\* a value that is no promise
Plain(v) == [promise |-> FALSE, state |-> "", v |-> v]

NullDeref(method) ==
    TypeError("Cannot read properties of null (reading '" \o method \o "')")

(***************************************************************************)
(* RestClient.parseBody (part_001 lines 150-168): an async method, so its  *)
(* result is a promise, rejected when the body of the method throws.       *)
(***************************************************************************)
parseBody(body, hdrs) ==
    IF Falsy(body) THEN Fulfilled(body)
    ELSE LET contentType == getHeader(hdrs, "content-type")
         IN  IF contentType.t # "string" THEN Rejected(NullDeref("startsWith"))
             ELSE IF startsWith(contentType.s, "text/")
             THEN Fulfilled(Str(StringCoerce(body)))
             ELSE IF startsWith(contentType.s, "application/json")
             THEN Fulfilled(Str(JSONStringify(body)))
             ELSE IF startsWith(contentType.s, "multipart/form-data")
             THEN Fulfilled(FormData(OwnEntries(body)))
             ELSE Fulfilled(body)

(***************************************************************************)
(* Responses of the transport, and RestClient.resolveResponse (part_001    *)
(* lines 177-193).                                                         *)
(***************************************************************************)
Response(status, statusText, hdrs, raw) ==
    [status |-> status, statusText |-> statusText, headers |-> hdrs, raw |-> raw]

\* Response.ok
Ok(result) == result.status \in 200..299

resolveResponse(result, forceType, resolveStreams) ==
    LET header == getHeader(result.headers, "content-type")
    IN  IF forceType = "" /\ header.t # "string" THEN Rejected(NullDeref("toLowerCase"))
        ELSE LET contentType ==
                     IF forceType # "" THEN forceType ELSE toLowerCase(header.s)
             IN  IF startsWith(contentType, "text/") THEN Fulfilled(Str(result.raw))
                 ELSE IF startsWith(contentType, "application/json")
                 THEN (IF JSONParse(result.raw).ok
                       THEN Fulfilled(JSONParse(result.raw).v)
                       ELSE Rejected(JSONParse(result.raw).v))
                 ELSE IF resolveStreams THEN Fulfilled(ArrayBuffer(result.raw))
                 ELSE Fulfilled(ReadableStream(result.raw))

(***************************************************************************)
(* HTTPError (httperror.js).  The reason phrases are those of              *)
(* HttpStatus.getStatusText for the status codes the transport answers     *)
(* with here.                                                              *)
(***************************************************************************)
getStatusText(code) ==
    CASE code = 200 -> "OK"
      [] code = 201 -> "Created"
      [] code = 301 -> "Moved Permanently"
      [] code = 401 -> "Unauthorized"
      [] code = 404 -> "Not Found"
      [] code = 503 -> "Service Unavailable"

NoOutcome ==
    [kind |-> "pending", name |-> "", message |-> "", code |-> 0,
     v |-> Undefined, response |-> Undefined]

Returned(v) == [NoOutcome EXCEPT !.kind = "returned", !.v = v]

\* throw of an Error, a TypeError or a SyntaxError e
Thrown(e) == [NoOutcome EXCEPT !.kind = "thrown", !.name = e.t, !.message = e.s]

Error(msg) == Val("Error", msg, <<>>, NoOpts)

\* new HTTPError(code, msg, response)
HTTPError(code, msg, response) ==
    [NoOutcome EXCEPT !.kind = "thrown", !.name = "HTTPError",
                      !.message = IF msg = "" THEN getStatusText(code) ELSE msg,
                      !.code = code, !.response = response]

\* a statusText that answers with the stored message (the transport's text)
statusTextFromMessage(e) == e.message

\* get statusText()
statusText(e) == getStatusText(e.code)

(***************************************************************************)
(* The client: construction and updateHeaders (part_001 lines 44-70,       *)
(* 218-225).                                                               *)
(***************************************************************************)
DefaultHeaders ==
    <<KV("Accept", Str("application/json")), KV("Content-Type", Str("application/json"))>>

updateHeaders(current, new) == Spread(current, new)

\* new RestClient(url, {headers, simulatedDelay})
Client(url, ctorHeaders, delay) ==
    [baseUrl |-> url, headers |-> updateHeaders(DefaultHeaders, ctorHeaders),
     simulatedDelay |-> delay]

This == [baseUrl |-> baseUrl, headers |-> headers, simulatedDelay |-> simulatedDelay]

(***************************************************************************)
(* Options objects.                                                        *)
(***************************************************************************)
NoFetchOptions == NoOpts.fetchOptions

WithHeaders(opts, h) == [opts EXCEPT !.keys = @ \cup {"headers"}, !.headers = h]
WithForceType(opts, ft) == [opts EXCEPT !.keys = @ \cup {"forceType"}, !.forceType = ft]
WithResolveStreams(opts, b) ==
    [opts EXCEPT !.keys = @ \cup {"resolveStreams"}, !.resolveStreams = b]
WithQuery(opts, q) == [opts EXCEPT !.keys = @ \cup {"query"}, !.query = q]
WithFetchOptions(opts, fo) ==
    [opts EXCEPT !.keys = @ \cup {"fetchOptions"}, !.fetchOptions = fo]

\* delete options.query
DeleteQuery(opts) == [opts EXCEPT !.keys = @ \ {"query"}, !.query = <<>>]

(***************************************************************************)
(* The verb wrappers (part_001 lines 234-289): the arguments each hands    *)
(* to _fetch(route, method, params, body, options).                        *)
(***************************************************************************)
FetchArgs(route, method, params, body, options) ==
    [route |-> route, method |-> method, params |-> params, body |-> body,
     options |-> options]

get(route, query, options) == FetchArgs(route, "GET", query, Null, options)

\* a post that leaves the query key in the options it forwards
postKeepingQuery(route, body, options) ==
    FetchArgs(route, "POST", options.query, body, options)

post(route, body, options) ==
    FetchArgs(route, "POST", options.query, body, DeleteQuery(options))

put(route, body, options) ==
    FetchArgs(route, "PUT", options.query, body, DeleteQuery(options))

patch(route, body, options) ==
    FetchArgs(route, "PATCH", options.query, body, DeleteQuery(options))

\* _fetch(route, 'DELETE', query, options): options lands in the body
\* parameter, and the options parameter takes its default, {}
delete(route, query, options) ==
    FetchArgs(route, "DELETE", query, OptsObj(options), NoOpts)

\* simpleFetch (index.js lines 16-20): api._fetch('', method, params, body, options)
simpleFetch(url, method, params, body, options) ==
    FetchArgs("", method, params, body, options)

(***************************************************************************)
(* One call of a verb method: the parameters and locals of _fetch          *)
(* (part_001 lines 108-142), the position it is suspended at, and what     *)
(* the caller and the transport observe of it.                             *)
(***************************************************************************)
NoRequest ==
    [url |-> "", method |-> "", headers |-> <<>>, body |-> Plain(Undefined)]

NoResponse == Response(0, "", <<>>, "")

IdleCall ==
    [pc |-> "idle",
     verb |-> "",                       \* the entry point the caller used
     given |-> FetchArgs("", "", <<>>, Undefined, NoOpts),  \* and its arguments
     tmp |-> FALSE,                     \* runs on simpleFetch's own client
     seen |-> 0,                        \* header updates applied before the call
     route |-> "", method |-> "", params |-> <<>>, body |-> Undefined,
     options |-> NoOpts,
     url |-> "",
     snapshot |-> <<>>,                 \* the spread copy of this.#headers
     hook |-> <<>>,                     \* what resolveHeaders resolved to
     merged |-> <<>>,                   \* const headers
     encoded |-> Plain(Undefined),      \* this.parseBody(body, headers)
     request |-> NoRequest,             \* fetch(fullRoute, fetchOptions)
     sent |-> 0,                        \* network calls issued
     result |-> NoResponse,
     decoded |-> Plain(Undefined),      \* this.resolveResponse(...)
     transforms |-> 0,                  \* calls of this.transform
     outcome |-> NoOutcome]

\* the hook's headers spread before the per-call ones
mergedHeadersHookFirst(snapshot, live, optionHeaders, hookHeaders) ==
    Spread(Spread(snapshot, hookHeaders), optionHeaders)

\* the defaults read after the await of resolveHeaders
mergedHeadersLive(snapshot, live, optionHeaders, hookHeaders) ==
    Spread(Spread(live, optionHeaders), hookHeaders)

\* the three spreads of `const headers = {...}`; the first is evaluated
\* before the await of resolveHeaders, so it copies the defaults of that moment
mergedHeaders(snapshot, live, optionHeaders, hookHeaders) ==
    Spread(Spread(snapshot, optionHeaders), hookHeaders)

\* {method, headers, body: this.parseBody(body, headers), ...(options.fetchOptions || {})}
fetchOptions(method, hdrs, encoded, fo) ==
    [method |-> IF "method" \in fo.keys THEN fo.method ELSE method,
     headers |-> IF "headers" \in fo.keys THEN fo.headers ELSE hdrs,
     body |-> IF "body" \in fo.keys THEN Plain(Str(fo.body)) ELSE encoded]

\* _fetch up to its first await: the route check, fullRoute, the copy of the
\* default headers, and the call of resolveHeaders
FetchStart(c, client, a) ==
    LET entered == [c EXCEPT !.route = a.route, !.method = a.method,
                             !.params = a.params, !.body = a.body,
                             !.options = a.options]
    IN  IF a.route = ""
        THEN [entered EXCEPT !.pc = "done",
                             !.outcome = Thrown(Error("Route is not defined"))]
        ELSE [entered EXCEPT !.pc = "awaitHeaders",
                             !.url = fullRoute(client.baseUrl, a.route, a.params),
                             !.snapshot = client.headers]

\* the status check made before the decode's failure is looked at
afterDecodeStatusFirst(result, decoded) ==
    IF ~Ok(result)
    THEN HTTPError(result.status, result.statusText,
                   IF decoded.state = "fulfilled" THEN decoded.v ELSE Undefined)
    ELSE IF decoded.state = "rejected" THEN Thrown(decoded.v)
    ELSE NoOutcome

\* what follows the decoded response: the decode's own failure, the status
\* check, or neither
afterDecode(result, decoded) ==
    IF decoded.state = "rejected" THEN Thrown(decoded.v)
    ELSE IF ~Ok(result) THEN HTTPError(result.status, result.statusText, decoded.v)
    ELSE NoOutcome

\* async transform(data) { return data; }
transform(data) == data

(***************************************************************************)
(* Inputs.                                                                 *)
(***************************************************************************)
TextPlain == <<KV("Content-Type", Str("text/plain"))>>
UpperJson == <<KV("Content-Type", Str("Application/JSON"))>>
NullContentType == <<KV("Content-Type", Null)>>
OctetStream == <<KV("Content-Type", Str("application/octet-stream"))>>
Multipart == <<KV("Content-Type", Str("multipart/form-data; boundary=x"))>>
AuthAndText == <<KV("Authorization", Str("Bearer t")), KV("Content-Type", Str("text/plain"))>>
Trace == <<KV("X-Trace", Str("1"))>>

X1 == <<KV("x", "1")>>
X1Y2 == <<KV("x", "1"), KV("y", "2")>>

Routes == {"/items", ""}
Queries == {<<>>, X1Y2}
Bodies == {Null, Str("hi"), Obj(<<KV("a", "1")>>)}

OptionsSet ==
    { NoOpts,
      WithHeaders(NoOpts, TextPlain),
      WithQuery(WithHeaders(NoOpts, Multipart), X1),
      WithQuery(WithForceType(WithHeaders(NoOpts, Trace), "application/json"), X1Y2),
      WithResolveStreams(WithHeaders(NoOpts, OctetStream), TRUE),
      WithFetchOptions(NoOpts, [NoFetchOptions EXCEPT !.keys = {"body"}, !.body = "raw"]),
      WithFetchOptions(WithQuery(NoOpts, X1),
                       [NoFetchOptions EXCEPT !.keys = {"method", "headers"},
                                              !.method = "HEAD", !.headers = Trace]) }

\* what an overriding resolveHeaders may resolve to; the default resolves to {}
HookHeaders == {<<>>, AuthAndText}

JsonType == <<KV("content-type", Str("application/json"))>>
UpperJsonType == <<KV("Content-Type", Str("Application/JSON; charset=utf-8"))>>
TextType == <<KV("content-type", Str("text/plain"))>>
BinaryType == <<KV("content-type", Str("application/octet-stream"))>>

Responses ==
    { Response(200, "OK", JsonType, "{\"a\":\"1\"}"),
      Response(201, "Created", UpperJsonType, "{\"id\":\"7\",\"a\":\"1\"}"),
      Response(200, "OK", JsonType, "{\"a\":"),
      Response(200, "OK", BinaryType, "bytes"),
      Response(404, "Not Found", JsonType, "{\"error\":\"not found\"}"),
      Response(404, "", JsonType, "{\"error\":\"not found\"}"),
      Response(404, "Not Found", JsonType, "<html>"),
      Response(503, "Busy", TextType, "down"),
      Response(401, "Unauthorized", <<>>, "") }

CtorHeaders == {<<>>, TextPlain}
Delays == {0, 50}
HeaderUpdates == {Trace, TextPlain}

Rich ==
    [routes |-> Routes, queries |-> Queries, bodies |-> Bodies, options |-> OptionsSet,
     hooks |-> HookHeaders, responses |-> Responses]

\* the inputs of the calls that run side by side
Small ==
    [routes |-> {"/items"}, queries |-> {<<>>}, bodies |-> {Obj(<<KV("a", "1")>>)},
     options |-> {NoOpts},
     hooks |-> {<<>>},
     responses |-> {Response(200, "OK", JsonType, "{\"a\":\"1\"}")}]

\* the arguments of the direct calls of parseBody
CodecBodies ==
    {Null, Str(""), Str("hi"), Obj(<<KV("a", "1")>>), Obj(<<KV("a", "1"), KV("b", "x")>>)}

CodecHeaders ==
    { <<>>,
      <<KV("Accept", Str("application/json"))>>,
      DefaultHeaders,
      UpperJson,
      JsonType,
      <<KV("Content-Type", Str("application/json; charset=utf-8"))>>,
      TextPlain,
      <<KV("Content-Type", Str("TEXT/html"))>>,
      Multipart,
      <<KV("Content-Type", Str("Multipart/Form-Data"))>>,
      OctetStream,
      NullContentType,
      <<KV("Content-Type", Undefined)>>,
      <<KV("content-type", Str("text/plain")), KV("Content-Type", Str("application/json"))>> }

(***************************************************************************)
(* The actions.  Start is a verb method called on the client (or, for      *)
(* simpleFetch, on a client of its own), run up to _fetch's first await.   *)
(***************************************************************************)
Start(i, verb, given, client, a) ==
    /\ calls[i].pc = "idle"
    /\ calls' = [calls EXCEPT ![i] =
                    FetchStart([IdleCall EXCEPT !.verb = verb, !.given = given,
                                                !.tmp = (verb = "simpleFetch"),
                                                !.seen = Len(updateLog)],
                               client, a)]
    /\ UNCHANGED <<baseUrl, headers, simulatedDelay, updateLog, codec>>

Get(i, in) ==
    \E route \in in.routes, query \in in.queries, options \in in.options :
        Start(i, "get", FetchArgs(route, "", query, Undefined, options), This,
              get(route, query, options))

Post(i, in) ==
    \E route \in in.routes, body \in in.bodies, options \in in.options :
        Start(i, "post", FetchArgs(route, "", <<>>, body, options), This,
              post(route, body, options))

Put(i, in) ==
    \E route \in in.routes, body \in in.bodies, options \in in.options :
        Start(i, "put", FetchArgs(route, "", <<>>, body, options), This,
              put(route, body, options))

Patch(i, in) ==
    \E route \in in.routes, body \in in.bodies, options \in in.options :
        Start(i, "patch", FetchArgs(route, "", <<>>, body, options), This,
              patch(route, body, options))

Delete(i, in) ==
    \E route \in in.routes, query \in in.queries, options \in in.options :
        Start(i, "delete", FetchArgs(route, "", query, Undefined, options), This,
              delete(route, query, options))

\* simpleFetch(url, method, params, body, options), url not empty: the
\* constructor of its client throws on an empty url
SimpleFetch(i) ==
    \E url \in {"http://other"}, method \in {"GET", "POST"}, params \in {<<>>, X1},
       body \in {Obj(<<>>), Str("hi")}, options \in {NoOpts, WithHeaders(NoOpts, TextPlain)} :
        Start(i, "simpleFetch", FetchArgs(url, method, params, body, options),
              Client(url, <<>>, 0), simpleFetch(url, method, params, body, options))

\* resolveHeaders settles: the headers are merged, the body is handed to
\* parseBody, and fetch is called
HeadersResolved(i, in) ==
    /\ calls[i].pc = "awaitHeaders"
    /\ \E hook \in in.hooks :
        LET c == calls[i]
            merged == mergedHeaders(c.snapshot, headers, c.options.headers, hook)
            encoded == parseBody(c.body, merged)
            fo == fetchOptions(c.method, merged, encoded, c.options.fetchOptions)
        IN  calls' = [calls EXCEPT ![i] =
                [c EXCEPT !.pc = "awaitFetch", !.hook = hook, !.merged = merged,
                          !.encoded = encoded,
                          !.request = [url |-> c.url, method |-> fo.method,
                                       headers |-> fo.headers, body |-> fo.body],
                          !.sent = @ + 1]]
    /\ UNCHANGED <<baseUrl, headers, simulatedDelay, updateLog, codec>>

\* fetch resolves with a response, which is handed to resolveResponse
FetchResolved(i, in) ==
    /\ calls[i].pc = "awaitFetch"
    /\ \E result \in in.responses :
        LET c == calls[i]
        IN  calls' = [calls EXCEPT ![i] =
                [c EXCEPT !.pc = "awaitDecode", !.result = result,
                          !.decoded = resolveResponse(result, c.options.forceType,
                                                      c.options.resolveStreams)]]
    /\ UNCHANGED <<baseUrl, headers, simulatedDelay, updateLog, codec>>

\* fetch rejects: a transport failure
FetchRejected(i) ==
    /\ calls[i].pc = "awaitFetch"
    /\ calls' = [calls EXCEPT ![i].pc = "done",
                              ![i].outcome = Thrown(TypeError("Failed to fetch"))]
    /\ UNCHANGED <<baseUrl, headers, simulatedDelay, updateLog, codec>>

ClientDelay(c) == IF c.tmp THEN 0 ELSE simulatedDelay

\* resolveResponse settles; then the status check, and on success the delay
\* or the call of transform
DecodeSettled(i) ==
    /\ calls[i].pc = "awaitDecode"
    /\ LET c == calls[i]
           failure == afterDecode(c.result, c.decoded)
       IN  calls' = [calls EXCEPT ![i] =
               IF failure.kind = "thrown"
               THEN [c EXCEPT !.pc = "done", !.outcome = failure]
               ELSE IF ClientDelay(c) # 0
               THEN [c EXCEPT !.pc = "awaitDelay"]
               ELSE [c EXCEPT !.pc = "awaitTransform", !.transforms = @ + 1]]
    /\ UNCHANGED <<baseUrl, headers, simulatedDelay, updateLog, codec>>

\* _simulateDelay's timer fires
DelayElapsed(i) ==
    /\ calls[i].pc = "awaitDelay"
    /\ calls' = [calls EXCEPT ![i].pc = "awaitTransform", ![i].transforms = @ + 1]
    /\ UNCHANGED <<baseUrl, headers, simulatedDelay, updateLog, codec>>

\* transform settles, and the call returns its value
TransformSettled(i) ==
    /\ calls[i].pc = "awaitTransform"
    /\ calls' = [calls EXCEPT ![i].pc = "done",
                              ![i].outcome = Returned(transform(calls[i].decoded.v))]
    /\ UNCHANGED <<baseUrl, headers, simulatedDelay, updateLog, codec>>

\* updateHeaders(h), by the owner of the client, at any moment
UpdateHeaders ==
    /\ Len(updateLog) < MaxUpdates
    /\ \E h \in HeaderUpdates :
        /\ headers' = updateHeaders(headers, h)
        /\ updateLog' = Append(updateLog, h)
    /\ UNCHANGED <<baseUrl, simulatedDelay, calls, codec>>

NoCodec == [called |-> FALSE, body |-> Undefined, headers |-> <<>>, result |-> Plain(Undefined)]

\* new RestClient(baseUrl, {headers, simulatedDelay})
Init ==
    /\ baseUrl = "http://api"
    /\ \E ctorHeaders \in CtorHeaders, delay \in Delays :
        /\ headers = Client(baseUrl, ctorHeaders, delay).headers
        /\ simulatedDelay = Client(baseUrl, ctorHeaders, delay).simulatedDelay
    /\ updateLog = <<>>
    /\ calls = [i \in CallIds |-> IdleCall]
    /\ codec = NoCodec

\* one caller, one call at a time
Next ==
    \/ Get(1, Rich)
    \/ Post(1, Rich)
    \/ Put(1, Rich)
    \/ Patch(1, Rich)
    \/ Delete(1, Rich)
    \/ SimpleFetch(1)
    \/ HeadersResolved(1, Rich)
    \/ FetchResolved(1, Rich)
    \/ FetchRejected(1)
    \/ DecodeSettled(1)
    \/ DelayElapsed(1)
    \/ TransformSettled(1)

Spec == Init /\ [][Next]_vars

(***************************************************************************)
(* Several callers on one client, and its owner updating the headers.      *)
(***************************************************************************)
InitConc ==
    /\ baseUrl = "http://api"
    /\ headers = Client(baseUrl, <<>>, 0).headers
    /\ simulatedDelay = Client(baseUrl, <<>>, 0).simulatedDelay
    /\ updateLog = <<>>
    /\ calls = [i \in CallIds |-> IdleCall]
    /\ codec = NoCodec

NextConc ==
    \/ \E i \in CallIds :
        \/ Post(i, Small)
        \/ HeadersResolved(i, Small)
        \/ FetchResolved(i, Small)
        \/ DecodeSettled(i)
        \/ TransformSettled(i)
    \/ UpdateHeaders

SpecConc == InitConc /\ [][NextConc]_vars

(***************************************************************************)
(* parseBody called directly, as the public method it is.                  *)
(***************************************************************************)
InitCodec ==
    /\ baseUrl = "http://api"
    /\ headers = DefaultHeaders
    /\ simulatedDelay = 0
    /\ updateLog = <<>>
    /\ calls = [i \in CallIds |-> IdleCall]
    /\ \E body \in CodecBodies, hdrs \in CodecHeaders :
        codec = [NoCodec EXCEPT !.body = body, !.headers = hdrs]

ParseBodyCall ==
    /\ ~codec.called
    /\ codec' = [codec EXCEPT !.called = TRUE,
                              !.result = parseBody(codec.body, codec.headers)]
    /\ UNCHANGED <<baseUrl, headers, simulatedDelay, updateLog, calls>>

NextCodec == ParseBodyCall

SpecCodec == InitCodec /\ [][NextCodec]_vars

(***************************************************************************)
(* Properties.                                                             *)
(***************************************************************************)
Started(c) == c.pc # "idle"
Transmitted(c) == c.sent > 0
\* the call is past the settling of resolveResponse
Settled(c) == c.result # NoResponse /\ c.pc \in {"awaitDelay", "awaitTransform", "done"}

Contains(s, sub) ==
    \E i \in 1..(Len(s) - Len(sub) + 1) : SubSeq(s, i, i + Len(sub) - 1) = sub

\* what follows the first "?" of a url
QueryStringOf(url) ==
    LET at == {i \in 1..Len(url) : Char(url, i) = "?"}
    IN  IF at = {} THEN ""
        ELSE SubSeq(url, (CHOOSE i \in at : \A j \in at : i <= j) + 1, Len(url))

KeysOf(m) == {m[i].k : i \in 1..Len(m)}

\* sent is the key-by-key merge of hook over perCall over defaults
HeaderPrecedence(sent, hook, perCall, defaults) ==
    /\ KeysOf(sent) = KeysOf(hook) \cup KeysOf(perCall) \cup KeysOf(defaults)
    /\ \A k \in KeysOf(sent) :
        Lookup(sent, k) =
            IF HasKey(hook, k) THEN Lookup(hook, k)
            ELSE IF HasKey(perCall, k) THEN Lookup(perCall, k)
            ELSE Lookup(defaults, k)

\* C1: whenever a call with a non-falsy body and no body key in
\* options.fetchOptions has issued its network call, the body handed to the
\* network call is the wire body parseBody produces for (body, merged
\* headers) itself, not a promise of it.
C1_WireBodyHandedToFetch ==
    \A i \in CallIds :
        LET c == calls[i]
        IN  (Transmitted(c) /\ ~Falsy(c.body) /\ "body" \notin c.options.fetchOptions.keys)
            => /\ ~c.request.body.promise
               /\ c.request.body.v = parseBody(c.body, c.merged).v

\* C2: delete(route, query, options) with non-empty route, query and options
\* runs the pipeline with method DELETE, query as the query parameters, no
\* body, and the given options as the pipeline's options.
C2_DeleteForwardsOptions ==
    \A i \in CallIds :
        LET c == calls[i]
        IN  (Started(c) /\ c.verb = "delete" /\ c.given.route # ""
             /\ c.given.params # <<>> /\ c.given.options # NoOpts)
            => /\ c.method = "DELETE"
               /\ c.params = c.given.params
               /\ Falsy(c.body)
               /\ c.options = c.given.options

\* C3: simpleFetch on a non-empty url completes only after exactly one
\* network request against that url, never failing before the request.
C3_SimpleFetchIssuesOneRequest ==
    \A i \in CallIds :
        LET c == calls[i]
        IN  (c.verb = "simpleFetch" /\ c.given.route # "" /\ c.pc = "done")
            => /\ c.sent = 1
               /\ c.request.method = c.given.method
               /\ startsWith(c.request.url, c.given.route)

C5_HeaderPrecedence ==
    \A i \in CallIds :
        LET c == calls[i]
        IN  (Transmitted(c) /\ "headers" \notin c.options.fetchOptions.keys)
            => HeaderPrecedence(c.request.headers, c.hook, c.options.headers, headers)

C5_Witness ==
    \E i \in CallIds :
        LET c == calls[i]
        IN  /\ Transmitted(c)
            /\ c.hook = AuthAndText
            /\ c.options.headers = Multipart
            /\ Lookup(c.request.headers, "Content-Type") = Str("text/plain")
            /\ Lookup(c.request.headers, "Accept") = Str("application/json")
            /\ Lookup(c.request.headers, "Authorization") = Str("Bearer t")

\* C6: for a non-falsy body, parseBody picks the encoding by a
\* case-insensitive prefix match on the Content-Type value: text/ gives the
\* string coercion, application/json the JSON text, multipart/form-data a
\* form of the body's own keys, anything else the body unchanged.
C6_CaseInsensitivePrefix ==
    LET contentType == getHeader(codec.headers, "content-type")
        lower == toLowerCase(contentType.s)
    IN  (codec.called /\ ~Falsy(codec.body) /\ contentType.t = "string")
        => /\ codec.result.state = "fulfilled"
           /\ codec.result.v =
                IF startsWith(lower, "text/") THEN Str(StringCoerce(codec.body))
                ELSE IF startsWith(lower, "application/json")
                THEN Str(JSONStringify(codec.body))
                ELSE IF startsWith(lower, "multipart/form-data")
                THEN FormData(OwnEntries(codec.body))
                ELSE codec.body

\* C7: for a non-falsy body and headers in which the lookup finds no
\* Content-Type value, parseBody yields the body unchanged and does not fault.
C7_MissingContentTypePassThrough ==
    (codec.called /\ ~Falsy(codec.body)
     /\ getHeader(codec.headers, "content-type").t \in {"null", "undefined"})
    => /\ codec.result.state = "fulfilled"
       /\ codec.result.v = codec.body

\* C8: post, put and patch use options.query as the query parameters of the
\* url (each key=value is in its query string; no query, no trailing "?"),
\* and forward the options without the query key, the other keys unchanged.
C8_QueryPulledFromOptions ==
    \A i \in CallIds :
        LET c == calls[i]
            q == c.given.options.query
        IN  (Started(c) /\ c.verb \in {"post", "put", "patch"})
            => /\ c.params = q
               /\ c.options.keys = c.given.options.keys \ {"query"}
               /\ c.options.headers = c.given.options.headers
               /\ c.options.forceType = c.given.options.forceType
               /\ c.options.resolveStreams = c.given.options.resolveStreams
               /\ c.options.fetchOptions = c.given.options.fetchOptions
               /\ c.body = c.given.body
               /\ (c.given.route # "" =>
                    /\ startsWith(c.url, baseUrl \o c.given.route)
                    /\ \A j \in 1..Len(q) :
                        Contains(QueryStringOf(c.url), q[j].k \o "=" \o q[j].v)
                    /\ (q = <<>> => c.url = baseUrl \o c.given.route)
                    /\ (Transmitted(c) => c.request.url = c.url))

C8_Witness ==
    \E i \in CallIds :
        LET c == calls[i]
        IN  /\ c.verb = "post" /\ Transmitted(c)
            /\ "query" \in c.given.options.keys
            /\ "forceType" \in c.options.keys
            /\ c.request.url = "http://api/items?x=1&y=2"

\* C9: decoding precedes the status check: a response whose effective
\* content type is application/json and whose body is malformed fails the
\* call with the parse error whatever the status; and an HTTPError carries
\* the completed decode of its response.
C9_DecodePrecedesStatus ==
    \A i \in CallIds :
        LET c == calls[i]
            header == getHeader(c.result.headers, "content-type")
            effective == IF c.options.forceType # "" THEN c.options.forceType
                         ELSE IF header.t = "string" THEN toLowerCase(header.s)
                         ELSE ""
        IN  /\ (Settled(c) /\ startsWith(effective, "application/json")
                /\ ~JSONParse(c.result.raw).ok)
               => /\ c.pc = "done"
                  /\ c.outcome.kind = "thrown"
                  /\ c.outcome.name = "SyntaxError"
            /\ c.outcome.name = "HTTPError"
               => /\ c.decoded.state = "fulfilled"
                  /\ c.outcome.response = c.decoded.v
                  /\ (startsWith(effective, "application/json")
                      => c.outcome.response = JSONParse(c.result.raw).v)
                  /\ (startsWith(effective, "text/")
                      => c.outcome.response = Str(c.result.raw))

C9_Witness ==
    \E i \in CallIds :
        LET c == calls[i]
        IN  /\ c.pc = "done" /\ c.result.status = 404 /\ c.result.raw = "<html>"
            /\ c.outcome.name = "SyntaxError"

\* the default headers after the first n updateHeaders calls
RECURSIVE HeadersAfter(_)
HeadersAfter(n) ==
    IF n = 0 THEN DefaultHeaders ELSE Spread(HeadersAfter(n - 1), updateLog[n])

\* C10: a call sends, and encodes its body under, the client's default
\* headers as they were when the verb method was invoked, whatever
\* updateHeaders calls happen while it is suspended; an update is visible
\* in full to the calls invoked after it; and the default headers are
\* changed by updateHeaders alone.
C10_HeaderSnapshot ==
    /\ headers = HeadersAfter(Len(updateLog))
    /\ \A i \in CallIds :
        LET c == calls[i]
        IN  Transmitted(c)
            => /\ HeaderPrecedence(c.request.headers, c.hook, c.options.headers,
                                   HeadersAfter(c.seen))
               /\ c.encoded = parseBody(c.body, c.request.headers)
               /\ getHeader(c.request.headers, "content-type")
                    = getHeader(HeadersAfter(c.seen), "content-type")

C10_Witness ==
    \E i, j \in CallIds :
        /\ calls[i].pc = "awaitFetch" /\ calls[i].seen = 0
        /\ calls[j].pc = "awaitFetch" /\ calls[j].seen = 1
        /\ updateLog = <<TextPlain>>
        /\ calls[i].encoded.v = Str("{\"a\":\"1\"}")
        /\ calls[j].encoded.v = Str("[object Object]")
        /\ Lookup(calls[j].request.headers, "Content-Type") = Str("text/plain")

====
